---- MODULE Spec2Model ----
(***************************************************************************)
(* colander-alchemy: generation of colander validation schemas from        *)
(* SQLAlchemy model metadata (src/colander_alchemy/__init__.py).           *)
(*                                                                         *)
(* The state is the process-wide SchemaGenerator.TYPE_MAP, the declared    *)
(* model class under generation, the SchemaGenerator instance in use, the  *)
(* schema returned by the last create() call, the value returned by the    *)
(* last convert_type() / deserialize() / remove_nulls() call and the dict  *)
(* that remove_nulls() is handed.  A 'schema' factory of __schema__ may     *)
(* keep one node object and return it on every call; that object is part   *)
(* of the state too.                                                       *)
(***************************************************************************)
EXTENDS Integers, Sequences, FiniteSets, TLC

VARIABLES
    TYPE_MAP,     \* SchemaGenerator.TYPE_MAP, a dict in insertion order
    model_class,  \* declaration of the model class "Main"
    data,         \* the dict handed to remove_nulls
    shared_node,  \* the node object a caching 'schema' factory returns
    generator,    \* the SchemaGenerator instance in use, or NoGenerator
    call,         \* the arguments of the last create() call
    schema,       \* what the last create() call returned (or raised)
    ret,          \* what the last convert_type() / deserialize() /
                  \* remove_nulls() call returned
    overrides     \* number of TYPE_MAP[...] = ... assignments made so far

vars ==
    <<TYPE_MAP, model_class, data, shared_node, generator, call, schema, ret, overrides>>

(***************************************************************************)
(* Bounds of the model.                                                    *)
(***************************************************************************)
\* largest maximum length of a string column; inputs are up to one longer
MaxLen == 2
\* number of TYPE_MAP[...] = ... assignments in one behaviour
MaxOverrides == 1
\* nesting depth of the dicts handed to remove_nulls
MaxDepth == 2
\* nullable() wrappers one node object collects in one behaviour
MaxWraps == 2

(***************************************************************************)
(* SQLAlchemy storage types: the classes of sqlalchemy.types used by the   *)
(* code and its tests, with their base classes.                            *)
(***************************************************************************)
MappedClasses ==
    {"BigInteger", "SmallInteger", "Integer", "DateTime", "Date", "Time",
     "Text", "Unicode", "UnicodeText", "Float", "Numeric", "Boolean"}

\* String is the base of Text/Unicode, REAL a subclass of Float, LargeBinary
\* and UnknownType (the class of tests.py) match no TYPE_MAP entry
StorageClasses == MappedClasses \cup {"String", "REAL", "LargeBinary", "UnknownType"}

\* the direct base class of a storage type class
Base(c) ==
    CASE c \in {"BigInteger", "SmallInteger"} -> "Integer"
      [] c \in {"Text", "Unicode"} -> "String"
      [] c = "UnicodeText" -> "Text"
      [] c = "Float" -> "Numeric"
      [] c = "REAL" -> "Float"
      [] OTHER -> "object"

RECURSIVE Ancestors(_)
\* class c and its base classes
Ancestors(c) == IF c = "object" THEN {} ELSE {c} \cup Ancestors(Base(c))

\* the classes an instance of each class is an instance of
Mro == [c \in StorageClasses |-> Ancestors(c)]

\* isinstance(column_type, class_)
isinstance(column_type, class_) == class_ \in Mro[column_type.class]

\* the storage types that carry a length attribute (String and its subclasses,
\* LargeBinary); length 0 stands for length=None
HasLength(c) == "String" \in Mro[c] \/ c = "LargeBinary"

(***************************************************************************)
(* TYPE_MAP and convert_type.  The validation types are colander's Integer,*)
(* DateTime, Date, Time, String, Float, Decimal and Boolean and the        *)
(* module's NaiveDateTime and StrippedString.                              *)
(***************************************************************************)
\* SchemaGenerator.TYPE_MAP as the class body builds it
InitialTypeMap ==
    << [class |-> "BigInteger",   typ |-> "Integer"],
       [class |-> "SmallInteger", typ |-> "Integer"],
       [class |-> "Integer",      typ |-> "Integer"],
       [class |-> "DateTime",     typ |-> "DateTime"],
       [class |-> "Date",         typ |-> "Date"],
       [class |-> "Time",         typ |-> "Time"],
       [class |-> "Text",         typ |-> "String"],
       [class |-> "Unicode",      typ |-> "String"],
       [class |-> "UnicodeText",  typ |-> "String"],
       [class |-> "Float",        typ |-> "Float"],
       [class |-> "Numeric",      typ |-> "Decimal"],
       [class |-> "Boolean",      typ |-> "Boolean"] >>

\* the keys of a dict
Keys(map) == {map[i].class : i \in 1..Len(map)}

\* map[key]
Lookup(map, key) ==
    LET i == CHOOSE j \in 1..Len(map) : map[j].class = key IN map[i].typ

\* map[key] = value: an existing key keeps its place, a new key goes last
SetItem(map, key, value) ==
    IF key \in Keys(map)
    THEN [i \in 1..Len(map) |->
             IF map[i].class = key THEN [class |-> key, typ |-> value] ELSE map[i]]
    ELSE Append(map, [class |-> key, typ |-> value])

\* what a call returns: a value, or the exception it raised
Returned(v) == [raised |-> "no", value |-> v]
Raised(exc, arg) == [raised |-> exc, value |-> arg]

RECURSIVE convert_type_from(_, _, _)
\* the loop of convert_type from the i-th entry of the dict on
convert_type_from(map, column_type, i) ==
    IF i > Len(map)
    THEN Raised("UnknownTypeException", column_type.class)
    ELSE IF column_type.class = "Float" /\ isinstance(column_type, "Float")
         THEN Returned(Lookup(map, "Float"))
         ELSE IF isinstance(column_type, map[i].class)
              THEN Returned(map[i].typ)
              ELSE convert_type_from(map, column_type, i + 1)

RECURSIVE convert_type_downwards(_, _, _)
\* the loop run from the last entry of the dict to the first
convert_type_downwards(map, column_type, i) ==
    IF i < 1
    THEN Raised("UnknownTypeException", column_type.class)
    ELSE IF column_type.class = "Float" /\ isinstance(column_type, "Float")
         THEN Returned(Lookup(map, "Float"))
         ELSE IF isinstance(column_type, map[i].class)
              THEN Returned(map[i].typ)
              ELSE convert_type_downwards(map, column_type, i - 1)

\* convert_type taking the last matching entry
convert_type_last_match(map, column_type) ==
    convert_type_downwards(map, column_type, Len(map))

\* SchemaGenerator.convert_type
convert_type(map, column_type) == convert_type_from(map, column_type, 1)

(***************************************************************************)
(* colander values and validators.                                         *)
(***************************************************************************)
\* colander.required and colander.null (the module's `missing`)
required == "colander.required"
missing == "colander.null"

\* a validator object: None, colander.Length(max), a configured validator
\* (Range, OneOf, Email, the model's _schema_validate hook), or
\* colander.All(*validators); max 0 stands for max=None
NoValidator == [kind |-> "None", max |-> 0, validators |-> <<>>]
Length(max) == [kind |-> "Length", max |-> max, validators |-> <<>>]
Custom(kind) == [kind |-> kind, max |-> 0, validators |-> <<>>]
All(validators) == [kind |-> "All", max |-> 0, validators |-> validators]

\* the configured validators a model's __schema__ may name
CustomKinds == {"OneOf", "Email"}

(***************************************************************************)
(* Model classes.  A declaration holds the mapped columns, the             *)
(* relationships and the __schema__ map of the class.                      *)
(***************************************************************************)
Type(class, length) == [class |-> class, length |-> length]

Column(type, nullable, default, primary_key, foreign_keys, index, polymorphic) ==
    [type |-> type, nullable |-> nullable, default |-> default,
     primary_key |-> primary_key, foreign_keys |-> foreign_keys,
     index |-> index, polymorphic |-> polymorphic]

\* Column(type) with SQLAlchemy's defaults: nullable, no default, no key
PlainColumn(type) == Column(type, TRUE, "NoDefault", FALSE, FALSE, "none", FALSE)

\* Column(BigInteger, primary_key=True)
IdColumn == Column(Type("BigInteger", 0), FALSE, "NoDefault", TRUE, FALSE, "none", FALSE)

\* the class of tests.py's RelatedClassC, with a required column and a
\* column with a default added: no relationship
LeafDecl ==
    [mixin |-> TRUE,
     columns |-> [id |-> IdColumn,
                  text_field |-> PlainColumn(Type("Text", 0)),
                  integer_field |->
                      Column(Type("Integer", 0), FALSE, "NoDefault",
                             FALSE, FALSE, "none", FALSE),
                  not_nullable_field |->
                      Column(Type("Boolean", 0), FALSE, "False",
                             FALSE, FALSE, "none", FALSE)],
     relations |-> <<>>,
     schema_cfg |-> <<>>]

\* the class of tests.py's RelatedClassA, with its relationship configured
\* and a column with a default added
TargetDecl ==
    [mixin |-> TRUE,
     columns |-> [id |-> IdColumn,
                  integer_field |->
                      Column(Type("Integer", 0), FALSE, "NoDefault",
                             FALSE, FALSE, "none", FALSE),
                  not_nullable_field |->
                      Column(Type("Boolean", 0), FALSE, "False",
                             FALSE, FALSE, "none", FALSE),
                  foreign_key_field |->
                      Column(Type("BigInteger", 0), TRUE, "NoDefault",
                             FALSE, TRUE, "none", FALSE)],
     relations |-> [related |-> "Leaf"],
     schema_cfg |-> [related |-> <<>>]]

\* a mapped class that does not derive from ColanderAlchemyMixin
PlainDecl ==
    [mixin |-> FALSE,
     columns |-> [id |-> IdColumn],
     relations |-> <<>>,
     schema_cfg |-> <<>>]

\* the declaration of a class, the one of Main being the state's
Decl(main, m) ==
    CASE m = "Main" -> main
      [] m = "Target" -> TargetDecl
      [] m = "Leaf" -> LeafDecl
      [] m = "Plain" -> PlainDecl

\* the keys of model_class._sa_class_manager
Attributes(decl) == DOMAIN decl.columns \cup DOMAIN decl.relations

\* whether model_class.__schema__[name][option] exists (no KeyError)
HasOption(decl, name, option) ==
    /\ name \in DOMAIN decl.schema_cfg
    /\ option \in DOMAIN decl.schema_cfg[name]

(***************************************************************************)
(* SchemaGenerator.                                                        *)
(***************************************************************************)
NoGenerator == [model_class |-> "None"]

\* SchemaGenerator.__init__
SchemaGenerator(model, missing_, assign_defaults, validator, only_indexed_fields, include_primary_keys, include_relations) ==
    [model_class |-> model, missing |-> missing_,
     assign_defaults |-> assign_defaults, validator |-> validator,
     only_indexed_fields |-> only_indexed_fields,
     include_primary_keys |-> include_primary_keys,
     include_relations |-> include_relations]

\* SchemaGenerator.is_nullable
is_nullable(decl, name) ==
    IF HasOption(decl, name, "nullable")
    THEN decl.schema_cfg[name]["nullable"]
    ELSE TRUE

\* SchemaGenerator.is_read_only
is_read_only(decl, name) ==
    IF HasOption(decl, name, "readonly")
    THEN decl.schema_cfg[name]["readonly"]
    ELSE FALSE

\* SchemaGenerator.validators
validators(decl, name) ==
    IF HasOption(decl, name, "validator")
    THEN decl.schema_cfg[name]["validator"]
    ELSE NoValidator

\* has_index taking any index on the column, also one over several columns
has_index_any_index(column) ==
    IF column.primary_key \/ column.foreign_keys
    THEN TRUE
    ELSE column.index # "none"

\* SchemaGenerator.has_index
has_index(column) ==
    IF column.primary_key \/ column.foreign_keys
    THEN TRUE
    ELSE column.index = "single"

\* skip_column with the first condition read as
\* not include_primary_keys and (primary_key or foreign_keys)
skip_column_keys_together(gen, decl, name) ==
    LET column == decl.columns[name] IN
    IF ~gen.include_primary_keys /\ (column.primary_key \/ column.foreign_keys)
    THEN TRUE
    ELSE IF is_read_only(decl, name) \/ column.polymorphic
         THEN TRUE
         ELSE IF gen.only_indexed_fields /\ ~has_index(column)
              THEN TRUE
              ELSE FALSE

\* SchemaGenerator.skip_column
skip_column(gen, decl, name) ==
    LET column == decl.columns[name] IN
    IF (~gen.include_primary_keys /\ column.primary_key) \/ column.foreign_keys
    THEN TRUE
    ELSE IF is_read_only(decl, name) \/ column.polymorphic
         THEN TRUE
         ELSE IF gen.only_indexed_fields /\ ~has_index(column)
              THEN TRUE
              ELSE FALSE

\* length_validator wrapping a configured composite instead of taking its
\* members
length_validator_nested(decl, name) ==
    LET column == decl.columns[name]
        validator == validators(decl, name)
    IN  IF HasLength(column.type.class)
        THEN LET length == Length(column.type.length) IN
             IF validator # NoValidator
             THEN All(<<length, validator>>)
             ELSE length
        ELSE validator

\* SchemaGenerator.length_validator
length_validator(decl, name) ==
    LET column == decl.columns[name]
        validator == validators(decl, name)
    IN  IF HasLength(column.type.class)
        THEN LET length == Length(column.type.length) IN
             IF validator # NoValidator
             THEN IF validator.kind = "All"
                  THEN All(<<length>> \o validator.validators)
                  ELSE All(<<length, validator>>)
             ELSE length
        ELSE validator

\* what building nodes gives: the nodes built, or the exceptions of which
\* one is raised
Nodes(nodes) == [raises |-> {}, nodes |-> nodes]
Raises(raises) == [raises |-> raises, nodes |-> {}]

\* a colander.SchemaNode / NullableSchemaNode object; wraps counts the
\* nullable() wrappers around its deserialize
Node(node_class, typ, name, missing_, validator, wraps, children) ==
    [node_class |-> node_class, typ |-> typ, name |-> name,
     missing |-> missing_, validator |-> validator, wraps |-> wraps,
     children |-> children]

\* nullable() leaving the node's deserialize as it is
nullable_no_wrapper(node) == node

\* nullable(node)
nullable(node) == [node EXCEPT !.wraps = @ + 1]

\* column_schema_node testing nullability before the column's default
column_schema_node_nullable_first(map, gen, decl, name) ==
    LET column == decl.columns[name]
        colander_type == convert_type(map, column.type)
        default ==
            IF is_nullable(decl, name) /\ column.nullable
            THEN missing
            ELSE IF column.default # "NoDefault" /\ gen.assign_defaults
                 THEN column.default
                 ELSE gen.missing
        validator == length_validator(decl, name)
        schema_node_cls ==
            IF column.nullable THEN "NullableSchemaNode" ELSE "SchemaNode"
    IN  IF colander_type.raised # "no"
        THEN Raises({colander_type})
        ELSE Nodes({Node(schema_node_cls, colander_type.value, name,
                         default, validator, 0, {})})

\* SchemaGenerator.column_schema_node
column_schema_node(map, gen, decl, name) ==
    LET column == decl.columns[name]
        colander_type == convert_type(map, column.type)
        default ==
            IF column.default # "NoDefault" /\ gen.assign_defaults
            THEN column.default
            ELSE IF is_nullable(decl, name) /\ column.nullable
                 THEN missing
                 ELSE gen.missing
        validator == length_validator(decl, name)
        schema_node_cls ==
            IF column.nullable THEN "NullableSchemaNode" ELSE "SchemaNode"
    IN  IF colander_type.raised # "no"
        THEN Raises({colander_type})
        ELSE Nodes({Node(schema_node_cls, colander_type.value, name,
                         default, validator, 0, {})})

RECURSIVE create(_, _, _, _, _, _)

\* schema() building its generator without the missing argument
schema_of_missing_dropped(map, main, cls, include, exclude, name, missing_, assign_defaults) ==
    create(map, main,
           SchemaGenerator(cls, required, assign_defaults, NoValidator,
                           FALSE, FALSE, TRUE),
           include, exclude, name)

\* ColanderAlchemyMixin.schema of class cls
schema_of(map, main, cls, include, exclude, name, missing_, assign_defaults) ==
    create(map, main,
           SchemaGenerator(cls, missing_, assign_defaults, NoValidator,
                           FALSE, FALSE, TRUE),
           include, exclude, name)

\* a factory configured as __schema__[name]['schema']: a classmethod of the
\* target that builds its schema with the primary key included
custom_schema(map, main, cls, name, missing_, assign_defaults) ==
    schema_of(map, main, cls, {"id"}, {}, name, missing_, assign_defaults)

\* a factory configured as __schema__[name]['schema'] that ignores its
\* arguments and returns the one node object it keeps
shared_schema(name, missing_, assign_defaults) == Nodes({shared_node})

\* SchemaGenerator.relation_schema_node
relation_schema_node(map, main, gen, name) ==
    LET decl == Decl(main, gen.model_class)
        model == decl.relations[name]
        default == IF is_nullable(decl, name) THEN missing ELSE gen.missing
        built ==
            IF HasOption(decl, name, "schema")
            THEN IF decl.schema_cfg[name]["schema"] = "shared_schema"
                 THEN shared_schema(name, default, gen.assign_defaults)
                 ELSE custom_schema(map, main, model, name, default, gen.assign_defaults)
            ELSE schema_of(map, main, model, {}, {}, name, default, TRUE)
    IN  IF name \notin DOMAIN decl.schema_cfg
        THEN Nodes({})
        ELSE IF ~Decl(main, model).mixin
             THEN Raises({Raised("Exception", model)})
             ELSE IF is_nullable(decl, name)
                  THEN [built EXCEPT !.nodes = {nullable(n) : n \in @}]
                  ELSE built

\* the loop body without the include_relations test
field_schema_node_any_relation(map, main, gen, name) ==
    LET decl == Decl(main, gen.model_class) IN
    IF name \in DOMAIN decl.relations
    THEN relation_schema_node(map, main, gen, name)
    ELSE column_schema_node(map, gen, decl, name)

\* the body of the loop of SchemaGenerator.get_create_schema_nodes for one
\* field
field_schema_node(map, main, gen, name) ==
    LET decl == Decl(main, gen.model_class) IN
    IF name \in DOMAIN decl.relations
    THEN IF gen.include_relations
         THEN relation_schema_node(map, main, gen, name)
         ELSE Nodes({})
    ELSE column_schema_node(map, gen, decl, name)

\* SchemaGenerator.get_create_schema_nodes: the schema with a child for every
\* field that yields a node, or the exception of a field that raises (the
\* fields are a set, iterated in no fixed order)
get_create_schema_nodes(map, main, gen, colander_schema, fields) ==
    LET built == {field_schema_node(map, main, gen, f) : f \in fields}
        raises == UNION {b.raises : b \in built}
    IN  IF raises # {}
        THEN Raises(raises)
        ELSE Nodes({[colander_schema EXCEPT
                        !.children = UNION {b.nodes : b \in built}]})

\* the fields SchemaGenerator.create hands to get_create_schema_nodes
create_fields(main, gen, include, exclude) ==
    LET decl == Decl(main, gen.model_class)
        tmp == {f \in Attributes(decl) :
                   ~(f \in DOMAIN decl.columns /\ skip_column(gen, decl, f))}
        included == IF include # {} THEN tmp \cup include ELSE tmp
    IN  IF exclude # {}
        THEN {f \in included : f \notin exclude}
        ELSE included

\* SchemaGenerator.create
create(map, main, gen, include, exclude, name) ==
    LET colander_schema ==
            Node("SchemaNode", "Mapping", name, gen.missing, gen.validator, 0, {})
    IN  get_create_schema_nodes(map, main, gen, colander_schema,
                                create_fields(main, gen, include, exclude))

\* the node object shared_schema keeps, built when the module of Main is
\* imported: Target.schema(name='rel', missing=colander.null)
CachedSchema ==
    CHOOSE node \in schema_of(InitialTypeMap, TargetDecl, "Target", {}, {}, "rel",
                              missing, TRUE).nodes : TRUE

\* Main.__schema__['rel']['schema'] is shared_schema
UsesSharedSchema(main) ==
    /\ HasOption(main, "rel", "schema")
    /\ main.schema_cfg["rel"]["schema"] = "shared_schema"

\* the kept node object after a create() call: the call's nullable() has
\* replaced its deserialize in place; a call that raised may or may not
\* have reached the relation
SharedAfter(main, outcome) ==
    IF ~UsesSharedSchema(main)
    THEN {shared_node}
    ELSE IF outcome.raised = "no"
         THEN IF \E child \in outcome.value.children : child.name = shared_node.name
              THEN {child \in outcome.value.children : child.name = shared_node.name}
              ELSE {shared_node}
         ELSE {shared_node} \cup
              (IF is_nullable(main, "rel") THEN {nullable(shared_node)} ELSE {})

(***************************************************************************)
(* Deserialization through a generated node.                               *)
(***************************************************************************)
\* what is handed to deserialize: colander.null, None, '', a string of a
\* length that satisfies the configured validators in passes, or a mapping
Null == [kind |-> "null", len |-> 0, passes |-> {}, fields |-> <<>>]
None == [kind |-> "None", len |-> 0, passes |-> {}, fields |-> <<>>]
Empty == [kind |-> "empty", len |-> 0, passes |-> {}, fields |-> <<>>]
Str(len, passes) == [kind |-> "str", len |-> len, passes |-> passes, fields |-> <<>>]
Mapping(fields) == [kind |-> "mapping", len |-> 0, passes |-> {}, fields |-> fields]

\* what deserialize gives: the appstruct (None, the node's missing value,
\* or the deserialized value) or colander.Invalid with its messages; inner
\* tells whether the node's own SchemaNode.deserialize ran
Appstruct(value, inner) ==
    [status |-> "ok", value |-> value, errors |-> {}, inner |-> inner]
Invalid(errors, inner) ==
    [status |-> "Invalid", value |-> "Invalid", errors |-> errors, inner |-> inner]
Error(name, msg) == [node |-> name, msg |-> msg]

RECURSIVE failed_validators(_, _)
\* the members of a validator that reject a value: colander.All runs every
\* member and collects the failures
failed_validators(validator, cstruct) ==
    CASE validator.kind = "None" -> {}
      [] validator.kind = "_schema_validate" -> {}
      [] validator.kind = "Length" ->
            IF validator.max # 0 /\ cstruct.len > validator.max
            THEN {"Longer than maximum length"}
            ELSE {}
      [] validator.kind = "All" ->
            UNION {failed_validators(validator.validators[i], cstruct) :
                      i \in 1..Len(validator.validators)}
      [] OTHER ->
            IF validator.kind \in cstruct.passes THEN {} ELSE {validator.kind}

\* the missing value of a node for an absent value, Required when it is
\* colander.required
missing_value(node) ==
    IF node.missing = required
    THEN Invalid({Error(node.name, "Required")}, TRUE)
    ELSE Appstruct(node.missing, TRUE)

RECURSIVE deserialize(_, _)

\* colander.Mapping.deserialize over the children of a node
mapping_errors(node, cstruct) ==
    UNION {deserialize(child,
                       IF child.name \in DOMAIN cstruct.fields
                       THEN cstruct.fields[child.name]
                       ELSE Null).errors : child \in node.children}

\* colander.SchemaNode.deserialize
SchemaNode_deserialize(node, cstruct) ==
    IF node.typ = "Mapping"
    THEN CASE cstruct.kind = "null" -> missing_value(node)
           [] cstruct.kind = "mapping" ->
                 LET errors == mapping_errors(node, cstruct) IN
                 IF errors # {} THEN Invalid(errors, TRUE)
                 ELSE Appstruct("appstruct", TRUE)
           [] OTHER -> Invalid({Error(node.name, "not a mapping type")}, TRUE)
    ELSE CASE cstruct.kind \in {"null", "None", "empty"} -> missing_value(node)
           [] cstruct.kind = "str" ->
                 LET failed == failed_validators(node.validator, cstruct) IN
                 IF failed # {}
                 THEN Invalid({Error(node.name, m) : m \in failed}, TRUE)
                 ELSE Appstruct("appstruct", TRUE)
           [] OTHER -> Invalid({Error(node.name, "not a scalar")}, TRUE)

\* NullableSchemaNode.deserialize, or SchemaNode.deserialize for a plain node
class_deserialize(node, cstruct) ==
    IF node.node_class = "NullableSchemaNode" /\ cstruct.kind \in {"None", "empty"}
    THEN Appstruct("None", FALSE)
    ELSE SchemaNode_deserialize(node, cstruct)

\* node.deserialize(cstruct): the wrapper of nullable() when the node has one
deserialize(node, cstruct) ==
    IF node.wraps > 0 /\ cstruct.kind \in {"None", "empty"}
    THEN Appstruct("None", FALSE)
    ELSE class_deserialize(node, cstruct)

(***************************************************************************)
(* remove_nulls.  A dict is a Mapping whose fields map its keys to values: *)
(* colander.null, None, 0, '' or a dict.                                   *)
(***************************************************************************)
\* the integer 0
Zero == [kind |-> "int", len |-> 0, passes |-> {}, fields |-> <<>>]

\* isinstance(value, dict)
isdict(value) == value.kind = "mapping"

\* remove_nulls copying a nested dict as it is
remove_nulls_shallow(dict) ==
    LET kept == {key \in DOMAIN dict.fields :
                    isdict(dict.fields[key]) \/ dict.fields[key].kind # "null"}
    IN  Mapping([key \in kept |-> dict.fields[key]])

\* remove_nulls dropping every falsy value
remove_nulls_falsy(dict) ==
    LET kept == {key \in DOMAIN dict.fields :
                    isdict(dict.fields[key]) \/ dict.fields[key].kind = "str"}
    IN  Mapping([key \in kept |-> dict.fields[key]])

RECURSIVE remove_nulls(_)
\* remove_nulls(data): result gets remove_nulls(value) for a dict value,
\* nothing for colander.null, the value itself otherwise
remove_nulls(dict) ==
    LET kept == {key \in DOMAIN dict.fields :
                    isdict(dict.fields[key]) \/ dict.fields[key].kind # "null"}
    IN  Mapping([key \in kept |->
                    IF isdict(dict.fields[key])
                    THEN remove_nulls(dict.fields[key])
                    ELSE dict.fields[key]])

(***************************************************************************)
(* The declarations of Main a behaviour may start from, and the arguments  *)
(* its calls may take.                                                     *)
(***************************************************************************)
\* the options of one __schema__ entry; each argument is empty (the option
\* is not given) or holds the option's value
Options(nullable_, readonly_, validator_, schema_) ==
    LET given(o) == CASE o = "nullable" -> nullable_
                      [] o = "readonly" -> readonly_
                      [] o = "validator" -> validator_
                      [] o = "schema" -> schema_
    IN  [o \in {x \in {"nullable", "readonly", "validator", "schema"} : given(x) # {}}
            |-> CHOOSE v \in given(o) : TRUE]

\* class Main: a column `col`, a required integer column `other`, a
\* relationship `rel`; cfg_names are the keys of its __schema__
MainDecl(col, col_options, rel_target, rel_options, cfg_names) ==
    [mixin |-> TRUE,
     columns |-> [col |-> col,
                  other |-> Column(Type("Integer", 0), FALSE, "NoDefault",
                                   FALSE, FALSE, "none", FALSE)],
     relations |-> [rel |-> rel_target],
     schema_cfg |-> [n \in cfg_names |->
                        IF n = "col" THEN col_options ELSE rel_options]]

NoCall == [entry |-> "none", include |-> {}, exclude |-> {}, overrides |-> 0]
NoSchema == [raised |-> "none", value |-> "none"]
NoReturn == [op |-> "none", overrides |-> 0]

\* the node a deserialize call goes through: the schema or one of its children
TargetNode(root, name) ==
    IF name = "" THEN root
    ELSE CHOOSE child \in root.children : child.name = name

\* a mapping holding the given children of a node: a string that passes
\* every validator for a column, an empty mapping for a relation
MappingOf(node, present) ==
    Mapping([n \in present |->
                LET child == CHOOSE c \in node.children : c.name = n IN
                IF child.typ = "Mapping" THEN Mapping(<<>>)
                ELSE Str(1, CustomKinds)])

\* the strings handed to a node
Strings == {Str(len, passes) : len \in 1..(MaxLen + 1), passes \in SUBSET CustomKinds}

(***************************************************************************)
(* Initial state and actions.  U bounds the declarations and arguments.    *)
(***************************************************************************)
InitIn(U) ==
    /\ TYPE_MAP = InitialTypeMap
    /\ model_class \in U.models
    /\ data \in U.data
    /\ shared_node = CachedSchema
    /\ generator = NoGenerator
    /\ call = NoCall
    /\ schema = NoSchema
    /\ ret = NoReturn
    /\ overrides = 0

\* SchemaGenerator.TYPE_MAP[class] = typ
SetTypeMapEntry(U) ==
    \E entry \in U.entries :
        /\ overrides < MaxOverrides
        /\ TYPE_MAP' = SetItem(TYPE_MAP, entry.class, entry.typ)
        /\ overrides' = overrides + 1
        /\ UNCHANGED <<model_class, data, shared_node, generator, call, schema, ret>>

\* generator = SchemaGenerator(Main, ...)
NewGenerator(U) ==
    \E missing_ \in U.missings, assign_defaults \in U.assign,
       validator \in U.hooks, only_indexed_fields \in U.only_indexed,
       include_primary_keys \in U.primary_keys, include_relations \in U.relations :
        /\ generator' = SchemaGenerator("Main", missing_, assign_defaults,
                                        validator, only_indexed_fields,
                                        include_primary_keys, include_relations)
        /\ call' = NoCall
        /\ schema' = NoSchema
        /\ ret' = NoReturn
        /\ UNCHANGED <<TYPE_MAP, model_class, data, shared_node, overrides>>

\* what a create() call may return or raise
Outcomes(built) ==
    IF built.raises # {} THEN built.raises ELSE {Returned(n) : n \in built.nodes}

\* return generator.create(include, exclude), the tail of every entry point
Generate(entry, gen, include, exclude) ==
    /\ UsesSharedSchema(model_class) => shared_node.wraps < MaxWraps
    /\ \E outcome \in Outcomes(create(TYPE_MAP, model_class, gen, include, exclude, "")) :
        /\ call' = [entry |-> entry, include |-> include, exclude |-> exclude,
                    overrides |-> overrides]
        /\ schema' = outcome
        /\ shared_node' \in SharedAfter(model_class, outcome)
        /\ ret' = NoReturn
        /\ UNCHANGED <<TYPE_MAP, model_class, data, overrides>>

\* generator.create(include, exclude)
Create(U) ==
    \E include \in U.includes, exclude \in U.excludes :
        /\ generator # NoGenerator
        /\ generator' = generator
        /\ Generate("create", generator, include, exclude)

\* Main.schema(include, exclude, missing=..., assign_defaults=...)
Schema(U) ==
    \E include \in U.includes, exclude \in U.excludes,
       missing_ \in U.missings, assign_defaults \in U.assign :
        LET gen == SchemaGenerator("Main", missing_, assign_defaults,
                                   NoValidator, FALSE, FALSE, TRUE)
        IN  /\ generator' = gen
            /\ Generate("schema", gen, include, exclude)

\* Main.get_create_schema(include, exclude): missing and assign_defaults
\* left at their defaults
GetCreateSchema(U) ==
    \E include \in U.includes, exclude \in U.excludes :
        LET gen == SchemaGenerator("Main", required, TRUE,
                                   Custom("_schema_validate"), FALSE, FALSE, TRUE)
        IN  /\ generator' = gen
            /\ Generate("get_create_schema", gen, include, exclude)

\* Main.get_update_schema(include, exclude): missing and assign_defaults
\* left at their defaults
GetUpdateSchema(U) ==
    \E include \in U.includes, exclude \in U.excludes :
        LET gen == SchemaGenerator("Main", missing, FALSE,
                                   Custom("_schema_validate"), FALSE, FALSE, TRUE)
        IN  /\ generator' = gen
            /\ Generate("get_update_schema", gen, include, exclude)

\* Main.get_search_schema(include, exclude): missing and assign_defaults
\* left at their defaults
GetSearchSchema(U) ==
    \E include \in U.includes, exclude \in U.excludes :
        LET gen == SchemaGenerator("Main", missing, FALSE,
                                   Custom("_schema_validate"), TRUE, TRUE, FALSE)
        IN  /\ generator' = gen
            /\ Generate("get_search_schema", gen, include, exclude)

\* SchemaGenerator(Main).convert_type(column_type)
ConvertType(U) ==
    \E column_type \in U.column_types :
        /\ generator' = SchemaGenerator("Main", required, TRUE, NoValidator,
                                        FALSE, FALSE, TRUE)
        /\ call' = NoCall
        /\ schema' = NoSchema
        /\ ret' = [op |-> "convert_type", arg |-> column_type,
                   out |-> convert_type(TYPE_MAP, column_type),
                   overrides |-> overrides]
        /\ UNCHANGED <<TYPE_MAP, model_class, data, shared_node, overrides>>

\* node.deserialize(cstruct) on the generated schema or one of its children
Deserialize(U) ==
    /\ schema.raised = "no"
    /\ \E name \in {""} \cup {c.name : c \in schema.value.children} :
         LET node == TargetNode(schema.value, name) IN
         \E cstruct \in U.cstructs \cup
                (IF node.typ = "Mapping" /\ U.mappings
                 THEN {MappingOf(node, present) :
                          present \in SUBSET {c.name : c \in node.children}}
                 ELSE {}) :
            /\ ret' = [op |-> "deserialize", arg |-> [node |-> name, cstruct |-> cstruct],
                       out |-> deserialize(node, cstruct),
                       overrides |-> overrides]
            /\ UNCHANGED <<TYPE_MAP, model_class, data, shared_node, generator, call, schema, overrides>>

\* remove_nulls(data): the function reads data.items() and assigns to its
\* local result only
RemoveNulls(U) ==
    /\ ret' = [op |-> "remove_nulls", arg |-> data,
               out |-> remove_nulls(data), overrides |-> overrides]
    /\ UNCHANGED <<TYPE_MAP, model_class, data, shared_node, generator, call, schema, overrides>>

NextIn(U) ==
    \/ SetTypeMapEntry(U)
    \/ NewGenerator(U)
    \/ Create(U)
    \/ Schema(U)
    \/ GetCreateSchema(U)
    \/ GetUpdateSchema(U)
    \/ GetSearchSchema(U)
    \/ ConvertType(U)
    \/ Deserialize(U)
    \/ RemoveNulls(U)

(***************************************************************************)
(* Field classification: every combination of the column facets that       *)
(* skip_column and has_index read, every generator flag.                   *)
(***************************************************************************)
ClassifyModels ==
    {MainDecl(Column(Type("Integer", 0), ~pk, "NoDefault", pk, fk, index, poly),
              Options({}, readonly_, {}, {}),
              rel[1],
              Options({}, {}, {}, {}),
              rel[2]) :
        pk \in BOOLEAN, fk \in BOOLEAN, poly \in BOOLEAN,
        index \in {"none", "single", "multi"},
        readonly_ \in {{}, {TRUE}},
        rel \in {<<"Target", {"col"}>>, <<"Target", {"col", "rel"}>>,
                 <<"Plain", {"col", "rel"}>>}}

Classify ==
    [models |-> ClassifyModels,
     entries |-> {},
     missings |-> {required}, assign |-> {TRUE}, hooks |-> {NoValidator},
     only_indexed |-> BOOLEAN, primary_keys |-> BOOLEAN, relations |-> BOOLEAN,
     includes |-> {{}, {"col"}, {"rel"}}, excludes |-> {{}, {"col"}},
     column_types |-> {}, cstructs |-> {}, mappings |-> FALSE,
     data |-> {Mapping(<<>>)}]

InitClassify == InitIn(Classify)
NextClassify ==
    \/ NewGenerator(Classify)
    \/ Create(Classify)
    \/ Schema(Classify)
    \/ GetSearchSchema(Classify)
SpecClassify == InitClassify /\ [][NextClassify]_vars

(***************************************************************************)
(* The whole program: every operation, columns of every kind of storage    *)
(* type, TYPE_MAP entries replaced and added.                              *)
(***************************************************************************)
GeneralClasses ==
    {"Integer", "DateTime", "Unicode", "UnicodeText", "Float", "Numeric",
     "REAL", "LargeBinary"}

GeneralModels ==
    {MainDecl(PlainColumn(Type(class, 0)), Options({}, {}, {}, {}),
              "Target", Options({}, {}, {}, {}), {"rel"}) :
        class \in GeneralClasses}

General ==
    [models |-> GeneralModels,
     entries |-> {[class |-> "DateTime", typ |-> "NaiveDateTime"],
                  [class |-> "UnicodeText", typ |-> "StrippedString"],
                  [class |-> "Text", typ |-> "StrippedString"],
                  [class |-> "Numeric", typ |-> "Float"],
                  [class |-> "String", typ |-> "String"]},
     missings |-> {required}, assign |-> {TRUE}, hooks |-> {NoValidator},
     only_indexed |-> {FALSE}, primary_keys |-> {FALSE}, relations |-> {FALSE},
     includes |-> {{}}, excludes |-> {{}},
     column_types |-> {Type(class, 0) : class \in StorageClasses},
     cstructs |-> {Null, None}, mappings |-> FALSE,
     data |-> {Mapping([key1 |-> Null, key2 |-> Zero])}]

Init == InitIn(General)
Next == NextIn(General)
Spec == Init /\ [][Next]_vars

(***************************************************************************)
(* Node construction: the column facets column_schema_node reads, the      *)
(* options of a configured relation, the generator's missing-default and   *)
(* assign_defaults.                                                        *)
(***************************************************************************)
NodeModels ==
    {MainDecl(Column(Type("Integer", 0), nullable_, default, FALSE, FALSE, "none", FALSE),
              Options(col_nullable, {}, {}, {}),
              "Target",
              Options(rel_nullable, {}, {}, rel_schema),
              {"col", "rel"}) :
        nullable_ \in BOOLEAN, default \in {"NoDefault", "0"},
        col_nullable \in {{}, {FALSE}},
        rel_nullable \in {{}, {FALSE}}, rel_schema \in {{}, {"custom_schema"}}}

NodesU ==
    [models |-> NodeModels,
     entries |-> {},
     missings |-> {required, missing}, assign |-> BOOLEAN, hooks |-> {NoValidator},
     only_indexed |-> {FALSE}, primary_keys |-> {FALSE}, relations |-> {TRUE},
     includes |-> {{}}, excludes |-> {{}},
     column_types |-> {},
     cstructs |-> {Null, None, Empty}, mappings |-> TRUE,
     data |-> {Mapping(<<>>)}]

InitNodes == InitIn(NodesU)
NextNodes ==
    \/ NewGenerator(NodesU)
    \/ Create(NodesU)
    \/ Schema(NodesU)
    \/ GetCreateSchema(NodesU)
    \/ GetUpdateSchema(NodesU)
    \/ Deserialize(NodesU)
SpecNodes == InitNodes /\ [][NextNodes]_vars

(***************************************************************************)
(* Validators: string columns of every maximum length, with and without a  *)
(* configured validator, and strings up to one longer than the maximum.    *)
(***************************************************************************)
ValidatorModels ==
    {MainDecl(PlainColumn(type), Options({}, {}, validator, {}),
              "Target", Options({}, {}, {}, {}), {"col"}) :
        type \in {Type("Unicode", n) : n \in 1..MaxLen}
                 \cup {Type("UnicodeText", 0), Type("Integer", 0)},
        validator \in {{}, {Custom("OneOf")},
                       {All(<<Custom("OneOf"), Custom("Email")>>)}}}

ValidatorsU ==
    [models |-> ValidatorModels,
     entries |-> {},
     missings |-> {required}, assign |-> {TRUE}, hooks |-> {NoValidator},
     only_indexed |-> {FALSE}, primary_keys |-> {FALSE}, relations |-> {TRUE},
     includes |-> {{}}, excludes |-> {{}},
     column_types |-> {},
     cstructs |-> Strings \cup {Empty}, mappings |-> FALSE,
     data |-> {Mapping(<<>>)}]

InitValidators == InitIn(ValidatorsU)
NextValidators ==
    \/ Schema(ValidatorsU)
    \/ GetUpdateSchema(ValidatorsU)
    \/ Deserialize(ValidatorsU)
SpecValidators == InitValidators /\ [][NextValidators]_vars

(***************************************************************************)
(* Null-stripping: every dict over two keys nested up to MaxDepth deep,    *)
(* with colander.null and the falsy values None, 0 and '' as leaves.       *)
(***************************************************************************)
DataKeys == {"a", "b"}
DataLeaves == {Null, None, Zero, Empty}

RECURSIVE Dicts(_)
\* the dicts nested at most depth deep
Dicts(depth) ==
    LET values == IF depth = 1 THEN DataLeaves
                  ELSE DataLeaves \cup Dicts(depth - 1)
    IN  UNION {{Mapping(fields) : fields \in [keys -> values]} :
                  keys \in SUBSET DataKeys}

RemoveNullsU ==
    [models |-> {MainDecl(PlainColumn(Type("Integer", 0)), Options({}, {}, {}, {}),
                          "Target", Options({}, {}, {}, {}), {"col"})},
     data |-> Dicts(MaxDepth)]

InitRemoveNulls == InitIn(RemoveNullsU)
NextRemoveNulls == RemoveNulls(RemoveNullsU)
SpecRemoveNulls == InitRemoveNulls /\ [][NextRemoveNulls]_vars

(***************************************************************************)
(* Nullable wrapping: nullable and non-nullable columns and relations, the *)
(* relation's schema built by the default factory, by a factory that       *)
(* builds a new schema on each call and by one that returns a kept node.   *)
(***************************************************************************)
WrapModels ==
    {MainDecl(Column(Type("Integer", 0), nullable_, "NoDefault", FALSE, FALSE, "none", FALSE),
              Options(col_nullable, {}, {}, {}),
              "Target",
              Options(rel_nullable, {}, {}, rel_schema),
              {"col", "rel"}) :
        nullable_ \in BOOLEAN, col_nullable \in {{}, {FALSE}},
        rel_nullable \in {{}, {FALSE}},
        rel_schema \in {{}, {"custom_schema"}, {"shared_schema"}}}

WrapU ==
    [models |-> WrapModels,
     entries |-> {},
     missings |-> {required, missing}, assign |-> {TRUE}, hooks |-> {NoValidator},
     only_indexed |-> {FALSE}, primary_keys |-> {FALSE}, relations |-> BOOLEAN,
     includes |-> {{}}, excludes |-> {{}, {"rel"}},
     column_types |-> {},
     cstructs |-> {Null, None, Empty}, mappings |-> FALSE,
     data |-> {Mapping(<<>>)}]

InitWrap == InitIn(WrapU)
NextWrap ==
    \/ NewGenerator(WrapU)
    \/ Create(WrapU)
    \/ Schema(WrapU)
    \/ GetUpdateSchema(WrapU)
    \/ Deserialize(WrapU)
SpecWrap == InitWrap /\ [][NextWrap]_vars

(***************************************************************************)
(* Properties of the generated schema.                                     *)
(***************************************************************************)
\* the last create() call returned a schema
Generated == schema.raised = "no"

\* the generated schema has a node for the attribute
HasNode(name) == Generated /\ \E child \in schema.value.children : child.name = name

\* the attribute is marked readonly in Main.__schema__
MarkedReadOnly(name) ==
    /\ HasOption(model_class, name, "readonly")
    /\ model_class.schema_cfg[name]["readonly"] = TRUE

\* the generator has the flags SchemaGenerator.__init__ defaults to
DefaultFlags ==
    /\ ~generator.only_indexed_fields
    /\ ~generator.include_primary_keys
    /\ generator.include_relations

\* the column is a primary key or has a foreign key
IsKey(name) ==
    model_class.columns[name].primary_key \/ model_class.columns[name].foreign_keys

\* C1: an attribute marked readonly in __schema__ has no node in a generated
\* schema, whatever the flags, include and exclude.
C1_ReadOnlyAbsent ==
    Generated =>
        \A name \in Attributes(model_class) : MarkedReadOnly(name) => ~HasNode(name)

\* C2 as stated: no node for a primary-key or foreign-key column under the
\* default flags with no include; a node for it when it is in include and
\* not in exclude, or when include_primary_keys is true.
C2_KeysAsStated ==
    Generated =>
        \A name \in DOMAIN model_class.columns :
            IsKey(name) =>
                /\ (DefaultFlags /\ call.include = {}) => ~HasNode(name)
                /\ ((name \in call.include /\ name \notin call.exclude)
                        \/ generator.include_primary_keys) => HasNode(name)

\* C2 amended: no node for a primary-key or foreign-key column under the
\* default flags with no include; a node for it when it is in include and
\* not in exclude; with include_primary_keys a node for a primary-key column
\* that has no foreign key, is not read-only, not a polymorphic discriminator
\* and not excluded; no node for a foreign-key column that is not included,
\* whatever include_primary_keys is.
C2_Keys ==
    Generated =>
        \A name \in DOMAIN model_class.columns :
            LET column == model_class.columns[name] IN
            IsKey(name) =>
                /\ (DefaultFlags /\ call.include = {}) => ~HasNode(name)
                /\ (name \in call.include /\ name \notin call.exclude) => HasNode(name)
                /\ (/\ generator.include_primary_keys
                    /\ ~column.foreign_keys
                    /\ ~MarkedReadOnly(name)
                    /\ ~column.polymorphic
                    /\ name \notin call.exclude) => HasNode(name)
                /\ (column.foreign_keys /\ name \notin call.include) => ~HasNode(name)

\* a foreign-key column, not included, under include_primary_keys
C2_Witness ==
    /\ Generated
    /\ generator.include_primary_keys
    /\ model_class.columns["col"].foreign_keys
    /\ model_class.columns["col"].primary_key
    /\ call.include = {}
    /\ ~HasNode("col")

\* C4: a relation has a node only if include_relations is true and its name
\* is a key of __schema__; one that is no key of __schema__ has no node, for
\* any include and any flags.
C4_RelationsOptIn ==
    Generated =>
        \A name \in DOMAIN model_class.relations :
            /\ HasNode(name) =>
                   (generator.include_relations /\ name \in DOMAIN model_class.schema_cfg)
            /\ name \notin DOMAIN model_class.schema_cfg => ~HasNode(name)

\* a relation that is no key of __schema__, named in include, with
\* include_relations true
C4_Witness ==
    /\ Generated
    /\ generator.include_relations
    /\ call.include = {"rel"}
    /\ "rel" \notin DOMAIN model_class.schema_cfg
    /\ ~HasNode("rel")

\* the column is the sole column of a single-column index
SinglyIndexed(name) == model_class.columns[name].index = "single"

\* C10: a schema of get_search_schema with no include or exclude has a node
\* for every primary-key column and every singly indexed column (unless it is
\* read-only, a foreign key or a polymorphic discriminator), none for a
\* column that is neither a primary key, a foreign key nor singly indexed,
\* and none for a relation, also one listed in __schema__.
C10_SearchSchema ==
    (Generated /\ call.entry = "get_search_schema"
        /\ call.include = {} /\ call.exclude = {}) =>
        /\ \A name \in DOMAIN model_class.columns :
              LET column == model_class.columns[name] IN
              /\ (/\ column.primary_key \/ SinglyIndexed(name)
                  /\ ~MarkedReadOnly(name)
                  /\ ~column.foreign_keys
                  /\ ~column.polymorphic) => HasNode(name)
              /\ (/\ ~column.primary_key
                  /\ ~column.foreign_keys
                  /\ ~SinglyIndexed(name)) => ~HasNode(name)
        /\ \A name \in DOMAIN model_class.relations : ~HasNode(name)

\* a search schema of a class whose relation is listed in __schema__ and
\* whose column lies in an index over several columns only
C10_Witness ==
    /\ Generated
    /\ call.entry = "get_search_schema"
    /\ call.include = {} /\ call.exclude = {}
    /\ "rel" \in DOMAIN model_class.schema_cfg
    /\ model_class.columns["col"].index = "multi"
    /\ ~model_class.columns["col"].primary_key
    /\ ~HasNode("col")

(***************************************************************************)
(* Properties of type conversion.                                          *)
(***************************************************************************)
\* the entries of TYPE_MAP a storage type is an instance of
Matching(column_type) ==
    {i \in 1..Len(TYPE_MAP) : TYPE_MAP[i].class \in Mro[column_type.class]}

\* the validation type the class body's TYPE_MAP gives each mapped class
DefaultTyp(class) ==
    CASE class \in {"BigInteger", "SmallInteger", "Integer"} -> "Integer"
      [] class = "DateTime" -> "DateTime"
      [] class = "Date" -> "Date"
      [] class = "Time" -> "Time"
      [] class \in {"Text", "Unicode", "UnicodeText"} -> "String"
      [] class = "Float" -> "Float"
      [] class = "Numeric" -> "Decimal"
      [] class = "Boolean" -> "Boolean"

\* C3: convert_type returns the validation type of the first TYPE_MAP entry
\* the storage type is an instance of (with the class body's TYPE_MAP:
\* integers to Integer, datetime to DateTime, date to Date, time to Time,
\* text/unicode/unicode-text to String, numeric to Decimal, boolean to
\* Boolean); exactly Float gives the Float entry's type, never Decimal; a
\* type matching no entry raises UnknownTypeException carrying the type.
C3_ConvertType ==
    (ret.op = "convert_type" /\ ret.overrides = overrides) =>
        LET column_type == ret.arg
            first == CHOOSE i \in Matching(column_type) :
                         \A j \in Matching(column_type) : i <= j
        IN  /\ Matching(column_type) # {} =>
                   ret.out = Returned(TYPE_MAP[first].typ)
            /\ (TYPE_MAP = InitialTypeMap /\ column_type.class \in MappedClasses) =>
                   ret.out = Returned(DefaultTyp(column_type.class))
            /\ column_type.class = "Float" =>
                   /\ ret.out = Returned(Lookup(TYPE_MAP, "Float"))
                   /\ TYPE_MAP = InitialTypeMap =>
                          (ret.out.value = "Float" /\ ret.out.value # "Decimal")
            /\ Matching(column_type) = {} =>
                   ret.out = Raised("UnknownTypeException", column_type.class)

\* a subclass of Float converted, and a type that matches no entry
C3_Witness ==
    /\ ret.op = "convert_type"
    /\ ret.overrides = overrides
    /\ ret.arg.class = "REAL"
    /\ ret.out = Returned("Float")

\* the storage type's TYPE_MAP entry is not the class body's
Replaced(class) ==
    /\ class \in Keys(InitialTypeMap)
    /\ Lookup(TYPE_MAP, class) # Lookup(InitialTypeMap, class)

\* the node of the generated schema for an attribute
NodeOf(name) == CHOOSE child \in schema.value.children : child.name = name

\* C8: once the TYPE_MAP entry of a storage type is replaced, every later
\* generation call gives every column of that storage type the overriding
\* validation type.
C8_OverrideVisible ==
    (Generated /\ call.overrides = overrides) =>
        \A name \in DOMAIN model_class.columns :
            (HasNode(name) /\ Replaced(model_class.columns[name].type.class)) =>
                NodeOf(name).typ = Lookup(TYPE_MAP, model_class.columns[name].type.class)

(***************************************************************************)
(* Properties of the generated nodes.                                      *)
(***************************************************************************)
\* the attribute is configured nullable: __schema__ gives no 'nullable'
\* option for it, or gives True
ConfiguredNullable(name) ==
    HasOption(model_class, name, "nullable") => model_class.schema_cfg[name]["nullable"]

\* the last call deserialized the cstruct through the node of the attribute
Deserialized(name, cstruct) ==
    /\ ret.op = "deserialize"
    /\ ret.arg.node = name
    /\ ret.arg.cstruct = cstruct

\* C5: None deserialized through the node of a configured relation gives
\* None without the nested schema's deserialization when the relation is
\* nullable (the default), and fails when it is marked nullable: False,
\* whatever the generator's missing-default.
C5_RelationNone ==
    (HasNode("rel") /\ Deserialized("rel", None)) =>
        IF ConfiguredNullable("rel")
        THEN ret.out.status = "ok" /\ ret.out.value = "None" /\ ~ret.out.inner
        ELSE ret.out.status = "Invalid"

\* None through a relation marked nullable: False, the generator built with
\* the absent sentinel as missing-default
C5_Witness ==
    /\ HasNode("rel")
    /\ Deserialized("rel", None)
    /\ ~ConfiguredNullable("rel")
    /\ generator.missing = missing
    /\ ret.out.status = "Invalid"

\* C7: the missing value of a scalar node is the column's default when it
\* has one and assign_defaults is true; else colander.null when the
\* attribute is configured nullable and the column is nullable; else the
\* generator's missing-default.
C7_MissingValue ==
    Generated =>
        \A name \in DOMAIN model_class.columns :
            HasNode(name) =>
                LET column == model_class.columns[name] IN
                NodeOf(name).missing =
                    IF column.default # "NoDefault" /\ generator.assign_defaults
                    THEN column.default
                    ELSE IF ConfiguredNullable(name) /\ column.nullable
                         THEN missing
                         ELSE generator.missing

\* a nullable column with a default, generated with assign_defaults true
C7_Witness ==
    /\ HasNode("col")
    /\ model_class.columns["col"].default = "0"
    /\ model_class.columns["col"].nullable
    /\ ConfiguredNullable("col")
    /\ generator.assign_defaults
    /\ generator.missing = required
    /\ NodeOf("col").missing = "0"

RECURSIVE Subnodes(_)
\* a node and the nodes below it
Subnodes(node) == {node} \cup UNION {Subnodes(child) : child \in node.children}

\* the root and the nodes of the schema that the generator or the default
\* factory of a relation built
BuiltByDefault ==
    {schema.value} \cup
    UNION {IF child.name \in DOMAIN model_class.relations
                /\ HasOption(model_class, child.name, "schema")
           THEN {}
           ELSE Subnodes(child) : child \in schema.value.children}

\* C9: in a schema generated with the absent sentinel as missing-default no
\* node, at the root or in a nested schema the default factory built, has
\* colander.required as its missing value, and deserializing a mapping that
\* omits fields raises no Required error.
C9_NothingRequired ==
    (Generated /\ generator.missing = missing) =>
        /\ \A node \in BuiltByDefault : node.missing # required
        /\ (/\ ret.op = "deserialize"
            /\ ret.arg.cstruct.kind = "mapping"
            /\ ~HasOption(model_class, "rel", "schema")) =>
               \A error \in ret.out.errors : error.msg # "Required"

\* an update schema with a relation marked nullable: False, built by the
\* default factory, deserializing a mapping that gives the relation only
C9_Witness ==
    /\ Generated
    /\ call.entry = "get_update_schema"
    /\ ~ConfiguredNullable("rel")
    /\ ~HasOption(model_class, "rel", "schema")
    /\ ret.op = "deserialize"
    /\ ret.arg.node = ""
    /\ ret.arg.cstruct = Mapping([n \in {"rel"} |-> Mapping(<<>>)])
    /\ ret.out.status = "ok"

\* the validator configured for the attribute, as a list of its members
ConfiguredMembers(name) ==
    LET validator == IF HasOption(model_class, name, "validator")
                     THEN model_class.schema_cfg[name]["validator"]
                     ELSE NoValidator
    IN  CASE validator.kind = "None" -> <<>>
          [] validator.kind = "All" -> validator.validators
          [] OTHER -> <<validator>>

\* C6: the node of a column whose type has maximum length N rejects input
\* longer than N; with a validator configured too, the node's validator is
\* All with the length constraint first, then the configured validator or
\* the members of a configured composite (k members give k + 1), and every
\* member is enforced.
C6_LengthValidator ==
    \A name \in DOMAIN model_class.columns :
        LET N == model_class.columns[name].type.length
            members == ConfiguredMembers(name)
        IN  (HasNode(name) /\ HasLength(model_class.columns[name].type.class) /\ N > 0) =>
                /\ members = <<>> => NodeOf(name).validator = Length(N)
                /\ members # <<>> =>
                       /\ NodeOf(name).validator.kind = "All"
                       /\ NodeOf(name).validator.validators = <<Length(N)>> \o members
                       /\ Len(NodeOf(name).validator.validators) = Len(members) + 1
                /\ (/\ ret.op = "deserialize"
                    /\ ret.arg.node = name
                    /\ ret.arg.cstruct.kind = "str") =>
                       /\ ret.arg.cstruct.len > N =>
                              /\ ret.out.status = "Invalid"
                              /\ Error(name, "Longer than maximum length") \in ret.out.errors
                       /\ \A i \in 1..Len(members) :
                              members[i].kind \notin ret.arg.cstruct.passes =>
                                  /\ ret.out.status = "Invalid"
                                  /\ Error(name, members[i].kind) \in ret.out.errors
                       /\ (/\ ret.arg.cstruct.len <= N
                           /\ \A i \in 1..Len(members) :
                                  members[i].kind \in ret.arg.cstruct.passes) =>
                              ret.out.status = "ok"

\* a column with a maximum length and a configured composite of two members,
\* given a string that is too long and fails one member
C6_Witness ==
    /\ HasNode("col")
    /\ model_class.columns["col"].type.length > 0
    /\ Len(ConfiguredMembers("col")) = 2
    /\ Len(NodeOf("col").validator.validators) = 3
    /\ ret.op = "deserialize"
    /\ ret.arg.node = "col"
    /\ ret.arg.cstruct.kind = "str"
    /\ ret.arg.cstruct.len > model_class.columns["col"].type.length
    /\ ret.arg.cstruct.passes = {"OneOf"}
    /\ ret.out.errors = {Error("col", "Longer than maximum length"), Error("col", "Email")}

(***************************************************************************)
(* Properties of remove_nulls.                                             *)
(***************************************************************************)
RECURSIVE StrippedOf(_, _)
\* out has exactly the keys of in whose value is not colander.null; a
\* nested dict is stripped the same way and any other value is unchanged
StrippedOf(out, in) ==
    /\ isdict(out)
    /\ DOMAIN out.fields = {key \in DOMAIN in.fields : in.fields[key] # Null}
    /\ \A key \in DOMAIN out.fields :
          IF isdict(in.fields[key])
          THEN StrippedOf(out.fields[key], in.fields[key])
          ELSE out.fields[key] = in.fields[key]

RECURSIVE HasNull(_)
\* some value of a dict, at any depth, is colander.null
HasNull(dict) ==
    \E key \in DOMAIN dict.fields :
        \/ dict.fields[key] = Null
        \/ isdict(dict.fields[key]) /\ HasNull(dict.fields[key])

\* C11: remove_nulls returns a mapping that at every depth has exactly the
\* keys of the input whose value is not colander.null, every other value
\* (None, 0, '', an empty dict) unchanged; the input is left as it was, and
\* remove_nulls of the result is the result.
C11_RemoveNulls ==
    ret.op = "remove_nulls" =>
        /\ StrippedOf(ret.out, ret.arg)
        /\ data = ret.arg
        /\ remove_nulls(ret.out) = ret.out

\* a dict with colander.null below the top level, a falsy value and an
\* empty dict next to it, has been stripped
C11_Witness ==
    /\ ret.op = "remove_nulls"
    /\ \E key \in DOMAIN ret.arg.fields :
          /\ isdict(ret.arg.fields[key])
          /\ HasNull(ret.arg.fields[key])
          /\ \E inner \in DOMAIN ret.arg.fields[key].fields :
                ret.arg.fields[key].fields[inner] \in {None, Zero, Empty, Mapping(<<>>)}
    /\ ret.out # ret.arg

(***************************************************************************)
(* Properties of the schema nested for a relation.                         *)
(***************************************************************************)
\* the node generated for Main's relation
RelationNode == NodeOf("rel")

\* Main's relation has a node and no 'schema' factory in __schema__
DefaultFactoryUsed ==
    /\ HasNode("rel")
    /\ ~HasOption(model_class, "rel", "schema")

\* the columns of Main's relation target that have a storage-level default
\* and a node in the nested schema
NestedDefaults ==
    {child \in RelationNode.children :
        /\ child.name \in DOMAIN Decl(model_class, model_class.relations["rel"]).columns
        /\ Decl(model_class, model_class.relations["rel"]).columns[child.name].default
               # "NoDefault"}

\* C12: the schema nested for a relation with no 'schema' factory is built
\* with the outer generator's assign_defaults, so a nested column with a
\* default has that default as its missing value exactly when the outer
\* generator's assign_defaults is true.
C12_AssignDefaultsPassed ==
    DefaultFactoryUsed =>
        \A child \in NestedDefaults :
            LET column == Decl(model_class, model_class.relations["rel"]).columns[child.name]
            IN  (child.missing = column.default) <=> generator.assign_defaults

(***************************************************************************)
(* Properties of nullable wrapping.                                        *)
(***************************************************************************)
\* the None / '' short-circuits in front of SchemaNode.deserialize: the one
\* of NullableSchemaNode and the wrappers of nullable()
Layers(node) ==
    node.wraps + (IF node.node_class = "NullableSchemaNode" THEN 1 ELSE 0)

\* the attribute is a nullable column or a nullable relation
NullableAttribute(name) ==
    IF name \in DOMAIN model_class.relations
    THEN is_nullable(model_class, name)
    ELSE model_class.columns[name].nullable

\* C13: after any sequence of generation calls the node of a nullable
\* column or relation carries exactly one layer of nullable wrapping, also
\* when a 'schema' factory returns the same node object on several calls,
\* and the node of a non-nullable column or relation carries none.
C13_WrappedOnce ==
    Generated =>
        \A child \in schema.value.children :
            Layers(child) = IF NullableAttribute(child.name) THEN 1 ELSE 0

====
